---- MODULE Spec2Model ----
(***************************************************************************)
(* Model of PathRAG-Python/PathRAG/llm.py: the tenacity retry wrappers     *)
(* around the Azure OpenAI completion / embedding / streaming calls, the   *)
(* keyword-extraction wrapper azure_openai_complete and the round-robin    *)
(* dispatcher MultiModel.                                                  *)
(*                                                                         *)
(* Python's None is the string "None"; a **kwargs dictionary is a function *)
(* from a finite set of key strings to value strings.                      *)
(***************************************************************************)
EXTENDS Integers, Sequences, FiniteSets, TLC

None == "None"

\* ------------------------------------------------------------------ bounds
MaxModels == 3
MaxDispatches == 3
MaxDeltas == 2
MaxTasks == 2
MaxStarts == 4
MaxThreads == 2

\* ------------------------------------------------------- retry parameters
\* @retry(stop=stop_after_attempt(3), ...)
MaxAttemptNumber == 3
\* wait_exponential(multiplier=1, min=4, max=10)
WaitMultiplier == 1
WaitMin == 4
WaitMax == 10

RetryableTypes == {"RateLimitError", "APIConnectionError", "Timeout"}

\* Errors the provider SDK can raise from a request; the fourth stands for
\* every provider error outside the retry tuple.
ProviderErrors == RetryableTypes \cup {"AuthenticationError"}

retry_if_exception_type_all(exc) == TRUE

\* retry=retry_if_exception_type((RateLimitError, APIConnectionError, Timeout))
retry_if_exception_type(exc) == exc \in RetryableTypes

stop_after_attempt_late(attempt) == attempt >= MaxAttemptNumber + 1

\* stop=stop_after_attempt(3): stop once attempt_number >= 3
stop_after_attempt(attempt) == attempt >= MaxAttemptNumber

RECURSIVE Pow2(_)
Pow2(n) == IF n <= 0 THEN 1 ELSE 2 * Pow2(n - 1)

Min2(a, b) == IF a <= b THEN a ELSE b
Max2(a, b) == IF a >= b THEN a ELSE b

wait_exponential_noFloor(attempt) ==
    Min2(WaitMultiplier * Pow2(attempt - 1), WaitMax)

\* tenacity wait_exponential.__call__: exp = 2 ** (attempt_number - 1);
\* result = multiplier * exp; return max(max(0, min), min(result, max))
wait_exponential(attempt) ==
    Max2(Max2(0, WaitMin), Min2(WaitMultiplier * Pow2(attempt - 1), WaitMax))

\* Values a call can deliver are sequences: a completion text is a sequence
\* of characters, an embedding matrix a sequence of rows. Python's None as a
\* returned value is NoneVal; NoVal fills the field when nothing is returned.
NoVal == <<>>
NoneVal == <<None>>

RetryExhausted_nocause(exc) ==
    [kind |-> "error", exc |-> "RetryError", cause |-> None, val |-> NoVal]

\* What the retry wrapper delivers once the stop condition holds on an
\* attempt that raised exc: tenacity (reraise=False) does
\* `raise RetryError(fut) from fut.exception()`.
RetryExhausted(exc) ==
    [kind |-> "error", exc |-> "RetryError", cause |-> exc, val |-> NoVal]

\* An exception the retry predicate rejects is re-raised as it is.
Reraise(exc) == [kind |-> "error", exc |-> exc, cause |-> None, val |-> NoVal]

Returns(v) == [kind |-> "value", exc |-> None, cause |-> None, val |-> v]

\* An async generator that ran to its end (StopAsyncIteration)
Exhausted == [kind |-> "done", exc |-> None, cause |-> None, val |-> NoVal]

NoResult == [kind |-> "none", exc |-> None, cause |-> None, val |-> NoVal]

\* ------------------------------------------------------------ dictionaries
EmptyDict == [k \in {} |-> None]

\* kwargs.pop(key, None) for each key of keys
PopAll(kw, keys) == [k \in (DOMAIN kw) \ keys |-> kw[k]]

\* The dictionary holding the keys of a and of b (b's value on a shared key)
Merge(a, b) ==
    [k \in (DOMAIN a) \cup (DOMAIN b) |-> IF k \in DOMAIN b THEN b[k] ELSE a[k]]

\* A call f(name=..., **a, **b) raises TypeError ("got multiple values for
\* keyword argument") when a key is given twice.
KeywordClash(named, a, b) ==
    \/ (DOMAIN a) \cap (DOMAIN b) # {}
    \/ named \cap ((DOMAIN a) \cup (DOMAIN b)) # {}

Get(kw, k) == IF k \in DOMAIN kw THEN kw[k] ELSE None

\* Python truthiness of an optional string or flag
Truthy(v) == v \notin {None, "", "False"}

\* ------------------------------------------------------------------- text
Texts == { <<"a">>, <<"a", "{", "k", "}", "b">>, <<"{", "k", "}">> }

Positions(s, c) == {i \in 1..Len(s) : s[i] = c}
MinOf(S) == CHOOSE x \in S : \A y \in S : x <= y
MaxOf(S) == CHOOSE x \in S : \A y \in S : x >= y

\* utils.locate_json_string_body_from_string: the span from the first "{"
\* to the last "}" of the text, None when there is no such span.
locate_json_string_body_from_string(content) ==
    LET opens == Positions(content, "{")
        closes == Positions(content, "}")
    IN  IF opens = {} \/ closes = {} \/ MinOf(opens) > MaxOf(closes)
        THEN NoneVal
        ELSE SubSeq(content, MinOf(opens), MaxOf(closes))

\* ---------------------------------------------------------------- inputs
\* (prompt, system_prompt, history_messages) of a call
CallInputs ==
    { [prompt |-> "P", system_prompt |-> None, history_messages |-> <<>>],
      [prompt |-> None, system_prompt |-> "S",
       history_messages |-> <<[role |-> "user", content |-> "h"]>>],
      [prompt |-> "", system_prompt |-> "",
       history_messages |-> <<[role |-> "assistant", content |-> "h"]>>] }

ApiKeys == {None, "K1", "K2"}
BaseUrls == {None, "U1"}
ApiVersions == {None, "V1"}
DirectOptions == { EmptyDict, [k \in {"hashing_kv"} |-> "kv"] }
KeywordExtractionArgs == {"absent", "True", "False"}
EmbeddingInputs == { <<"t1">>, <<"t1", "t2">> }

\* what the dispatcher's callers pass, and what their providers answer
DispatchInputs == {inp \in CallInputs : inp.system_prompt = None}
DispatchErrors == {"RateLimitError", "AuthenticationError"}

CallerKeys == {"model", "keyword_extraction", "mode", "temperature"}
CallerValue == "caller"
CallerOptions == { [k \in S |-> CallerValue] : S \in SUBSET CallerKeys }

\* Model descriptors: Model(gen_func=..., kwargs={...})
Descriptors ==
    { [gen_func |-> "azure_openai_complete_if_cache",
       kwargs |-> [k \in {"model", "api_key"} |-> IF k = "model" THEN "gpt-4" ELSE "K1"]],
      [gen_func |-> "azure_openai_complete_if_cache",
       kwargs |-> [k \in {"model", "temperature"} |-> IF k = "model" THEN "gpt-4" ELSE "desc"]],
      [gen_func |-> "azure_openai_complete",
       kwargs |-> [k \in {"temperature"} |-> "desc"]] }

ModelLists == UNION { [1..n -> Descriptors] : n \in 1..MaxModels }

\* os.environ restricted to the three settings the module reads and writes
EnvSet == [AZURE_OPENAI_API_KEY |-> "K0", AZURE_OPENAI_ENDPOINT |-> "U0",
           AZURE_OPENAI_API_VERSION |-> "V0"]
EnvUnset == [AZURE_OPENAI_API_KEY |-> None, AZURE_OPENAI_ENDPOINT |-> None,
             AZURE_OPENAI_API_VERSION |-> None]

\* Incremental deltas of a provider stream, as dictionaries
Deltas == { [k \in {"content"} |-> "Hel"], [k \in {"content"} |-> "lo"],
            [k \in {"role"} |-> "assistant"],
            [role |-> "assistant", content |-> None] }
DeltaSeqs == UNION { [1..n -> Deltas] : n \in 0..MaxDeltas }
StreamTails == {"end"} \cup ProviderErrors

\* ------------------------------------------------------------------ state
VARIABLES
    models,          \* MultiModel._models
    current_model,   \* MultiModel._current_model
    dispatches,      \* number of llm_model_func calls made so far
    gen_calls,       \* gen_func invocations of the latest llm_model_func call
    environ,         \* os.environ
    pc,              \* where the call in progress stands
    frame,           \* arguments and locals of the call in progress / last call
    attempt_number,  \* tenacity's retry_state.attempt_number
    requests,        \* provider requests made by the latest wrapped call,
                     \* each with what the provider answered
    waits,           \* sleeps between its attempts
    result,          \* what the latest call delivered to its caller
    stream,          \* the provider stream of the streaming call
    yielded,         \* fragments the streaming call has yielded
    tasks,           \* concurrent calls: each coroutine's or thread's position
                     \* and locals
    order            \* descriptor indices selected by concurrent dispatches,
                     \* in the order of selection

vars == <<models, current_model, dispatches, gen_calls, environ, pc, frame,
          attempt_number, requests, waits, result, stream, yielded, tasks, order>>

\* the state of concurrent calls, left alone by calls made one after the other
conc == <<tasks, order>>

NoFrame ==
    [chain |-> <<>>, caller_kwargs |-> EmptyDict, kx_arg |-> None,
     keyword_extraction |-> None, model |-> None, prompt |-> None,
     system_prompt |-> None, history_messages |-> <<>>, base_url |-> None,
     api_key |-> None, api_version |-> None, kwargs |-> EmptyDict,
     texts |-> <<>>]

\* deltas: what the provider emits on the stream; events: what is still to come
NoStream == [open |-> FALSE, deltas |-> <<>>, events |-> <<>>, tail |-> "end"]

InChain(f, name) == \E i \in 1..Len(f.chain) : f.chain[i] = name
WrappedFn(f) == f.chain[Len(f.chain)]

\* ------------------------------------------------- the wrapped functions
\* Parameters of azure_openai_complete_if_cache(_stream) besides **kwargs
IfCacheParams == {"model", "prompt", "system_prompt", "history_messages",
                  "base_url", "api_key", "api_version"}

\* Binding of azure_openai_complete_if_cache(model, prompt, system_prompt=,
\* history_messages=, **kw): the frame of the body
IfCacheFrame(chain, caller_kwargs, kx_arg, kx_local, model, inp, kw) ==
    [chain |-> chain, caller_kwargs |-> caller_kwargs, kx_arg |-> kx_arg,
     keyword_extraction |-> kx_local, model |-> model, prompt |-> inp.prompt,
     system_prompt |-> inp.system_prompt,
     history_messages |-> inp.history_messages,
     base_url |-> Get(kw, "base_url"), api_key |-> Get(kw, "api_key"),
     api_version |-> Get(kw, "api_version"),
     kwargs |-> PopAll(kw, IfCacheParams), texts |-> <<>>]

\* a call that names model, prompt, system_prompt and history_messages
\* itself fails to bind when **kw repeats one of them
PositionalClash(kw) ==
    (DOMAIN kw) \cap {"model", "prompt", "system_prompt", "history_messages"} # {}

\* azure_openai_complete(prompt, system_prompt, history_messages,
\* keyword_extraction=False, **kwargs): the named parameter takes the
\* caller's flag, so **kwargs never holds the key ...
CompleteKwargs(kw) ==
    PopAll(kw, {"prompt", "system_prompt", "history_messages", "keyword_extraction"})

CompleteFlagParam(kw) ==
    IF "keyword_extraction" \in DOMAIN kw THEN kw["keyword_extraction"] ELSE "False"

\* ... and line 89 then rebinds the local from **kwargs:
\* keyword_extraction = kwargs.pop("keyword_extraction", None)
CompleteFlagLocal(kw) == Get(CompleteKwargs(kw), "keyword_extraction")

CompleteFrame(chain, caller_kwargs, inp, kw) ==
    IfCacheFrame(chain \o <<"azure_openai_complete", "azure_openai_complete_if_cache">>,
                 caller_kwargs, CompleteFlagParam(kw), CompleteFlagLocal(kw),
                 "gpt-4o", inp,
                 PopAll(CompleteKwargs(kw), {"keyword_extraction"}))

SetEnviron_noVersion(env, api_key, base_url, api_version) ==
    [AZURE_OPENAI_API_KEY |-> IF Truthy(api_key) THEN api_key ELSE env.AZURE_OPENAI_API_KEY,
     AZURE_OPENAI_ENDPOINT |-> IF Truthy(base_url) THEN base_url ELSE env.AZURE_OPENAI_ENDPOINT,
     AZURE_OPENAI_API_VERSION |-> env.AZURE_OPENAI_API_VERSION]

\* lines 55-60 / 121-126 / 155-160
SetEnviron(env, api_key, base_url, api_version) ==
    [AZURE_OPENAI_API_KEY |-> IF Truthy(api_key) THEN api_key ELSE env.AZURE_OPENAI_API_KEY,
     AZURE_OPENAI_ENDPOINT |-> IF Truthy(base_url) THEN base_url ELSE env.AZURE_OPENAI_ENDPOINT,
     AZURE_OPENAI_API_VERSION |-> IF Truthy(api_version) THEN api_version
                                  ELSE env.AZURE_OPENAI_API_VERSION]

\* lines 62-66: AsyncAzureOpenAI(azure_endpoint=os.getenv(..), ...)
Client(env) ==
    [azure_endpoint |-> env.AZURE_OPENAI_ENDPOINT,
     api_key |-> env.AZURE_OPENAI_API_KEY,
     api_version |-> env.AZURE_OPENAI_API_VERSION]

BuildMessages_userFirst(system_prompt, history_messages, prompt) ==
    (IF Truthy(system_prompt)
     THEN <<[role |-> "system", content |-> system_prompt]>> ELSE <<>>)
    \o (IF prompt # None THEN <<[role |-> "user", content |-> prompt]>> ELSE <<>>)
    \o history_messages

\* lines 68-73
BuildMessages(system_prompt, history_messages, prompt) ==
    (IF Truthy(system_prompt)
     THEN <<[role |-> "system", content |-> system_prompt]>> ELSE <<>>)
    \o history_messages
    \o (IF prompt # None THEN <<[role |-> "user", content |-> prompt]>> ELSE <<>>)

\* The request one run of the body sends
Request(f, env) ==
    IF WrappedFn(f) = "azure_openai_embedding"
    THEN [client |-> Client(env), model |-> f.model, messages |-> <<>>,
          input |-> f.texts, kwargs |-> [k \in {"encoding_format"} |-> "float"]]
    ELSE [client |-> Client(env), model |-> f.model,
          messages |-> BuildMessages(f.system_prompt, f.history_messages, f.prompt),
          input |-> <<>>,
          kwargs |-> IF WrappedFn(f) = "azure_openai_complete_if_cache_stream"
                     THEN Merge(PopAll(f.kwargs, {"hashing_kv"}),
                                [k \in {"stream"} |-> "True"])
                     ELSE PopAll(f.kwargs, {"hashing_kv"})]

\* What a successful provider response makes the body return
Responses(f) ==
    IF WrappedFn(f) = "azure_openai_embedding"
    THEN { [i \in 1..Len(f.texts) |-> f.texts[i]] }
    ELSE Texts

\* lines 97-99: what the chain above the wrapped function hands to the
\* caller; MultiModel.llm_model_func returns the awaited value as it is
Deliver(f, out) ==
    IF out.kind = "value" /\ InChain(f, "azure_openai_complete")
       /\ Truthy(f.keyword_extraction)
    THEN Returns(locate_json_string_body_from_string(out.val))
    ELSE out

\* ---------------------------------------------------------------- actions
StartWrapped(f) ==
    /\ frame' = f
    /\ pc' = "attempt"
    /\ attempt_number' = 1
    /\ requests' = <<>>
    /\ waits' = <<>>
    /\ result' = NoResult

\* the call raises before any request is made
FailEarly(f, exc) ==
    /\ frame' = f
    /\ pc' = "idle"
    /\ attempt_number' = 1
    /\ requests' = <<>>
    /\ waits' = <<>>
    /\ result' = Reraise(exc)

\* One run of the wrapped body under tenacity's retry loop, up to the
\* decision taken on its outcome; errors are the exceptions the provider
\* may answer with.
Attempt(errors) ==
    /\ pc = "attempt"
    /\ environ' = SetEnviron(environ, frame.api_key, frame.base_url, frame.api_version)
    /\ \/ \E v \in Responses(frame) :
            /\ requests' = Append(requests, [request |-> Request(frame, environ'),
                                             outcome |-> "ok", response |-> v])
            /\ result' = Deliver(frame, Returns(v))
            /\ pc' = "idle"
            /\ waits' = waits
       \/ \E exc \in errors :
            /\ requests' = Append(requests, [request |-> Request(frame, environ'),
                                             outcome |-> exc, response |-> NoVal])
            /\ IF ~retry_if_exception_type(exc)
               THEN /\ result' = Deliver(frame, Reraise(exc))
                    /\ pc' = "idle"
                    /\ waits' = waits
               ELSE IF stop_after_attempt(attempt_number)
               THEN /\ result' = Deliver(frame, RetryExhausted(exc))
                    /\ pc' = "idle"
                    /\ waits' = waits
               ELSE /\ result' = result
                    /\ pc' = "sleep"
                    /\ waits' = Append(waits, wait_exponential(attempt_number))
    /\ UNCHANGED <<conc, models, current_model, dispatches, gen_calls, frame,
                   attempt_number, stream, yielded>>

\* the sleep ends and the next attempt starts
Wake ==
    /\ pc = "sleep"
    /\ pc' = "attempt"
    /\ attempt_number' = attempt_number + 1
    /\ UNCHANGED <<conc, models, current_model, dispatches, gen_calls, environ, frame,
                   requests, waits, result, stream, yielded>>

\* azure_openai_complete_if_cache("gpt-4o", prompt, ..., base_url=, api_key=,
\* api_version=, **opts) called directly
CompleteIfCache(inp, key, url, ver, opts) ==
    /\ pc = "idle"
    /\ StartWrapped([IfCacheFrame(<<"azure_openai_complete_if_cache">>, EmptyDict,
                                  None, None, "gpt-4o", inp, opts)
                     EXCEPT !.api_key = key, !.base_url = url, !.api_version = ver])
    /\ stream' = NoStream
    /\ yielded' = <<>>
    /\ UNCHANGED <<conc, models, current_model, dispatches, gen_calls, environ>>

\* the keyword dictionary of a call azure_openai_complete(..., **kw)
FlagDict(kx) == IF kx = "absent" THEN EmptyDict ELSE [k \in {"keyword_extraction"} |-> kx]
KeyDict(key) == IF key = None THEN EmptyDict ELSE [k \in {"api_key"} |-> key]

\* azure_openai_complete(prompt, system_prompt=, history_messages=,
\* [keyword_extraction=kx,] [api_key=key])
Complete(inp, kx, key) ==
    /\ pc = "idle"
    /\ LET kw == Merge(FlagDict(kx), KeyDict(key))
       IN  IF PositionalClash(PopAll(CompleteKwargs(kw), {"keyword_extraction"}))
           THEN FailEarly(CompleteFrame(<<>>, EmptyDict, inp, kw), "TypeError")
           ELSE StartWrapped(CompleteFrame(<<>>, EmptyDict, inp, kw))
    /\ stream' = NoStream
    /\ yielded' = <<>>
    /\ UNCHANGED <<conc, models, current_model, dispatches, gen_calls, environ>>

\* azure_openai_embedding(texts, base_url=, api_key=, api_version=)
Embedding(texts, key, url, ver) ==
    /\ pc = "idle"
    /\ StartWrapped([NoFrame EXCEPT !.chain = <<"azure_openai_embedding">>,
                                    !.model = "text-embedding-3-small",
                                    !.texts = texts, !.api_key = key,
                                    !.base_url = url, !.api_version = ver])
    /\ stream' = NoStream
    /\ yielded' = <<>>
    /\ UNCHANGED <<conc, models, current_model, dispatches, gen_calls, environ>>

\* ------------------------------------------------------------- MultiModel
NextCursor_stay(cursor, n) == cursor % n
NextCursor_skip(cursor, n) == (cursor + 2) % n

\* _next_model: self._current_model = (self._current_model + 1) % len(self._models)
NextCursor(cursor, n) == (cursor + 1) % n

StripReserved_noMode(kwargs) == PopAll(kwargs, {"model", "keyword_extraction"})

\* lines 273-275: kwargs.pop("model"), pop("keyword_extraction"), pop("mode")
StripReserved(kwargs) == PopAll(kwargs, {"model", "keyword_extraction", "mode"})

\* names llm_model_func passes itself in dict(prompt=, system_prompt=, ...)
DispatchNamed == {"prompt", "system_prompt", "history_messages"}

\* next_model.gen_func(**args)
GenFunc(gen_func, caller_kwargs, inp, merged) ==
    IF gen_func = "azure_openai_complete_if_cache"
    THEN IF "model" \notin DOMAIN merged
         THEN FailEarly([NoFrame EXCEPT !.chain = <<"llm_model_func", gen_func>>,
                                        !.caller_kwargs = caller_kwargs], "TypeError")
         ELSE StartWrapped(IfCacheFrame(<<"llm_model_func", gen_func>>, caller_kwargs,
                                        None, None, merged["model"], inp,
                                        PopAll(merged, {"model"})))
    ELSE IF PositionalClash(PopAll(CompleteKwargs(merged), {"keyword_extraction"}))
         THEN FailEarly(CompleteFrame(<<"llm_model_func">>, caller_kwargs, inp, merged),
                        "TypeError")
         ELSE StartWrapped(CompleteFrame(<<"llm_model_func">>, caller_kwargs, inp, merged))

\* MultiModel.llm_model_func(prompt, system_prompt, history_messages, **kwargs)
LlmModelFunc(inp, kwargs) ==
    /\ pc = "idle"
    /\ dispatches < MaxDispatches
    /\ LET kw == StripReserved(kwargs)
           cursor == NextCursor(current_model, Len(models))
           next_model == models[cursor + 1]
       IN  /\ current_model' = cursor
           /\ dispatches' = dispatches + 1
           /\ IF KeywordClash(DispatchNamed, kw, next_model.kwargs)
              THEN /\ gen_calls' = <<>>
                   /\ FailEarly([NoFrame EXCEPT !.chain = <<"llm_model_func">>,
                                                !.caller_kwargs = kwargs], "TypeError")
              ELSE /\ gen_calls' = <<[idx |-> cursor,
                                      kwargs |-> Merge(kw, next_model.kwargs)]>>
                   /\ GenFunc(next_model.gen_func, kwargs, inp,
                              Merge(kw, next_model.kwargs))
    /\ UNCHANGED <<conc, models, environ, stream, yielded>>

\* -------------------------------------------------------------- streaming
\* azure_openai_complete_if_cache_stream(...) or azure_openai_complete_stream(...)
\* is called. The function is an async generator function, so the retry
\* wrapper's single attempt only creates the generator object and succeeds:
\* no line of the body has run when the wrapper returns.
StreamCall(inp, via, key, url, ver) ==
    /\ pc = "idle"
    /\ frame' = [IfCacheFrame(via \o <<"azure_openai_complete_if_cache_stream">>,
                              EmptyDict, None, None, "gpt-4o", inp, EmptyDict)
                 EXCEPT !.api_key = key, !.base_url = url, !.api_version = ver]
    /\ pc' = "created"
    /\ attempt_number' = 1
    /\ requests' = <<>>
    /\ waits' = <<>>
    /\ result' = NoResult
    /\ stream' = NoStream
    /\ yielded' = <<>>
    /\ UNCHANGED <<conc, models, current_model, dispatches, gen_calls, environ>>

\* The consumer asks for the first fragment: the body runs from line 155 to
\* the opening of the provider stream at line 179.
StreamOpen ==
    /\ pc = "created"
    /\ environ' = SetEnviron(environ, frame.api_key, frame.base_url, frame.api_version)
    /\ \/ \E events \in DeltaSeqs, tail \in StreamTails :
            /\ requests' = Append(requests, [request |-> Request(frame, environ'),
                                             outcome |-> "ok", response |-> NoVal])
            /\ stream' = [open |-> TRUE, deltas |-> events, events |-> events,
                          tail |-> tail]
            /\ pc' = "streaming"
            /\ UNCHANGED result
       \/ \E exc \in ProviderErrors :
            /\ requests' = Append(requests, [request |-> Request(frame, environ'),
                                             outcome |-> exc, response |-> NoVal])
            /\ result' = Reraise(exc)
            /\ pc' = "idle"
            /\ UNCHANGED stream
    /\ UNCHANGED <<conc, models, current_model, dispatches, gen_calls, frame,
                   attempt_number, waits, yielded>>

\* a consumer-side retry: the stream is opened again after an error
StreamNext_reopen ==
    /\ pc = "streaming"
    /\ IF stream.events = <<>>
       THEN /\ pc' = IF stream.tail = "end" THEN "idle" ELSE "created"
            /\ result' = IF stream.tail = "end" THEN Exhausted ELSE result
            /\ UNCHANGED <<stream, yielded>>
       ELSE /\ stream' = [stream EXCEPT !.events = Tail(stream.events)]
            /\ yielded' = IF "content" \in DOMAIN Head(stream.events)
                          THEN Append(yielded, Head(stream.events)["content"])
                          ELSE yielded
            /\ UNCHANGED <<pc, result>>
    /\ UNCHANGED <<conc, models, current_model, dispatches, gen_calls, environ, frame,
                   attempt_number, requests, waits>>

\* lines 179-185: the next chunk of the provider stream is read
StreamNext ==
    /\ pc = "streaming"
    /\ IF stream.events = <<>>
       THEN /\ pc' = "idle"
            /\ result' = IF stream.tail = "end" THEN Exhausted
                          ELSE Reraise(stream.tail)
            /\ UNCHANGED <<stream, yielded>>
       ELSE /\ stream' = [stream EXCEPT !.events = Tail(stream.events)]
            /\ yielded' = IF "content" \in DOMAIN Head(stream.events)
                          THEN Append(yielded, Head(stream.events)["content"])
                          ELSE yielded
            /\ UNCHANGED <<pc, result>>
    /\ UNCHANGED <<conc, models, current_model, dispatches, gen_calls, environ, frame,
                   attempt_number, requests, waits>>

\* --------------------------------------------------------- specifications
InitCall ==
    /\ pc = "idle"
    /\ frame = NoFrame
    /\ attempt_number = 0
    /\ requests = <<>>
    /\ waits = <<>>
    /\ result = NoResult
    /\ stream = NoStream
    /\ yielded = <<>>
    /\ current_model = 0
    /\ dispatches = 0
    /\ gen_calls = <<>>

\* MultiModel(models), then calls of llm_model_func one after the other
Init ==
    /\ models \in ModelLists
    /\ environ = EnvSet
    /\ InitCall
    /\ tasks = <<>>
    /\ order = <<>>

Next ==
    \/ \E inp \in DispatchInputs, kwargs \in CallerOptions : LlmModelFunc(inp, kwargs)
    \/ Attempt(DispatchErrors)
    \/ Wake

Spec == Init /\ [][Next]_vars

\* direct calls of the retry-wrapped functions, one after the other
InitRetry ==
    /\ models = <<CHOOSE d \in Descriptors : d.gen_func = "azure_openai_complete">>
    /\ environ \in {EnvSet, EnvUnset}
    /\ InitCall
    /\ tasks = <<>>
    /\ order = <<>>

NextRetry ==
    \/ \E inp \in CallInputs, key \in ApiKeys, url \in BaseUrls, ver \in ApiVersions,
          opts \in DirectOptions : CompleteIfCache(inp, key, url, ver, opts)
    \/ \E inp \in CallInputs, kx \in KeywordExtractionArgs, key \in ApiKeys :
          Complete(inp, kx, key)
    \/ \E texts \in EmbeddingInputs, key \in ApiKeys, url \in BaseUrls,
          ver \in ApiVersions : Embedding(texts, key, url, ver)
    \/ Attempt(ProviderErrors)
    \/ Wake

SpecRetry == InitRetry /\ [][NextRetry]_vars

\* streaming calls, one after the other
NextStream ==
    \/ \E inp \in CallInputs, via \in {<<>>, <<"azure_openai_complete_stream">>},
          key \in ApiKeys, url \in BaseUrls, ver \in ApiVersions :
          StreamCall(inp, via, key, url, ver)
    \/ StreamOpen
    \/ StreamNext

SpecStream == InitRetry /\ [][NextStream]_vars

\* completion, embedding and streaming calls in any order, one after the other
NextCalls ==
    \/ \E inp \in DispatchInputs, key \in ApiKeys, url \in BaseUrls, ver \in ApiVersions :
          CompleteIfCache(inp, key, url, ver, EmptyDict)
    \/ \E inp \in DispatchInputs, key \in ApiKeys : Complete(inp, "absent", key)
    \/ \E key \in ApiKeys, url \in BaseUrls, ver \in ApiVersions :
          Embedding(<<"t1">>, key, url, ver)
    \/ \E inp \in DispatchInputs, key \in ApiKeys, url \in BaseUrls, ver \in ApiVersions :
          StreamCall(inp, <<>>, key, url, ver)
    \/ Attempt(ProviderErrors)
    \/ Wake
    \/ StreamOpen
    \/ StreamNext

SpecCalls == InitRetry /\ [][NextCalls]_vars

\* ------------------------------------------------------- concurrent calls
\* The variables of the calls made one after the other
seq == <<dispatches, gen_calls, pc, frame, attempt_number, requests, waits,
         result, stream, yielded>>

NoClient == [azure_endpoint |-> None, api_key |-> None, api_version |-> None]

\* A call that has not started: pc is where the call stands, fn the function
\* called, attempt tenacity's attempt number, client the client its latest
\* body run built, cursor a thread's local copy of _current_model, outcome
\* what the call ended with
NoTask ==
    [pc |-> "idle", fn |-> None, api_key |-> None, base_url |-> None,
     api_version |-> None, attempt |-> 0, client |-> NoClient, cursor |-> -1,
     outcome |-> None]

\* a call that has ended: its frame is gone
Ended(task, outcome) == [NoTask EXCEPT !.cursor = task.cursor, !.outcome = outcome]

Tasks == 1..MaxTasks
Threads == 1..MaxThreads

\* descriptor lists of the dispatchers called concurrently
CoopModelLists ==
    UNION { [1..n -> {d \in Descriptors : "api_key" \in DOMAIN d.kwargs
                                          \/ d.gen_func = "azure_openai_complete"}] :
            n \in 1..MaxModels }

\* caller options of the concurrent dispatches
CoopOptions == {kw \in CallerOptions : DOMAIN kw \subseteq {"temperature"}}

\* settings of the concurrent direct calls
CoopSettings ==
    { [api_key |-> "K1", base_url |-> "U1", api_version |-> "V1"],
      [api_key |-> "K2", base_url |-> "U1", api_version |-> "V1"],
      [api_key |-> "K2", base_url |-> None, api_version |-> None],
      [api_key |-> None, base_url |-> None, api_version |-> None] }

\* the environment is written on the first attempt only
BodyEnviron_firstAttempt(env, task) ==
    IF task.attempt = 0
    THEN SetEnviron(env, task.api_key, task.base_url, task.api_version)
    ELSE env

\* lines 55-60 / 121-126: the environment as a run of the body leaves it
BodyEnviron(env, task) ==
    SetEnviron(env, task.api_key, task.base_url, task.api_version)

\* One run of a wrapped body from its first line to the await of the
\* provider request (lines 55-75, 121-134): no suspension point in between
RunBody(t, task) ==
    /\ environ' = BodyEnviron(environ, task)
    /\ tasks' = [tasks EXCEPT ![t] = [task EXCEPT !.pc = "awaiting",
                                                  !.attempt = @ + 1,
                                                  !.client = Client(environ')]]

\* next_model.gen_func(**args) raises TypeError while binding its arguments
BindFails(gen_func, merged) ==
    IF gen_func = "azure_openai_complete_if_cache"
    THEN "model" \notin DOMAIN merged
    ELSE PositionalClash(PopAll(CompleteKwargs(merged), {"keyword_extraction"}))

\* A coroutine calls MultiModel.llm_model_func: it runs without suspension
\* from line 273 through _next_model and the building of args into the
\* generation function, up to that function's await of the provider.
CoopDispatch(t, kwargs) ==
    /\ tasks[t].pc = "idle"
    /\ Len(order) < MaxStarts
    /\ LET kw == StripReserved(kwargs)
           cursor == NextCursor(current_model, Len(models))
           next_model == models[cursor + 1]
           merged == Merge(kw, next_model.kwargs)
           started == [NoTask EXCEPT !.fn = "llm_model_func"]
       IN  /\ current_model' = cursor
           /\ order' = Append(order, cursor)
           /\ IF \/ KeywordClash(DispatchNamed, kw, next_model.kwargs)
                 \/ BindFails(next_model.gen_func, merged)
              THEN /\ tasks' = [tasks EXCEPT ![t] = Ended(started, "TypeError")]
                   /\ environ' = environ
              ELSE RunBody(t, [started EXCEPT !.api_key = Get(merged, "api_key"),
                                              !.base_url = Get(merged, "base_url"),
                                              !.api_version = Get(merged, "api_version")])
    /\ UNCHANGED <<models, seq>>

\* A coroutine calls azure_openai_complete_if_cache or azure_openai_embedding
CoopCall(t, fn, settings) ==
    /\ tasks[t].pc = "idle"
    /\ RunBody(t, [NoTask EXCEPT !.fn = fn, !.api_key = settings.api_key,
                                 !.base_url = settings.base_url,
                                 !.api_version = settings.api_version])
    /\ UNCHANGED <<models, current_model, order, seq>>

\* The provider answers the request a coroutine awaits (lines 75-77, 134-136)
\* and tenacity decides on the outcome
CoopResponse(t, errors) ==
    /\ tasks[t].pc = "awaiting"
    /\ \/ tasks' = [tasks EXCEPT ![t] = Ended(@, "ok")]
       \/ \E exc \in errors :
            tasks' = [tasks EXCEPT ![t] =
                        IF ~retry_if_exception_type(exc)
                        THEN Ended(@, exc)
                        ELSE IF stop_after_attempt(@.attempt)
                        THEN Ended(@, "RetryError")
                        ELSE [@ EXCEPT !.pc = "sleep"]]
    /\ UNCHANGED <<models, current_model, environ, order, seq>>

\* a coroutine's sleep ends and tenacity runs the body again
CoopWake(t) ==
    /\ tasks[t].pc = "sleep"
    /\ RunBody(t, tasks[t])
    /\ UNCHANGED <<models, current_model, order, seq>>

\* overlapping MultiModel.llm_model_func calls on one event loop
InitCoop ==
    /\ models \in CoopModelLists
    /\ environ = EnvSet
    /\ InitCall
    /\ tasks = [t \in Tasks |-> NoTask]
    /\ order = <<>>

NextCoop ==
    \/ \E t \in Tasks, kwargs \in CoopOptions : CoopDispatch(t, kwargs)
    \/ \E t \in Tasks : CoopResponse(t, DispatchErrors)
    \/ \E t \in Tasks : CoopWake(t)

SpecCoop == InitCoop /\ [][NextCoop]_vars

\* overlapping completion and embedding calls on one event loop
InitEnv ==
    /\ models = <<CHOOSE d \in Descriptors : d.gen_func = "azure_openai_complete">>
    /\ environ = EnvSet
    /\ InitCall
    /\ tasks = [t \in Tasks |-> NoTask]
    /\ order = <<>>

NextEnv ==
    \/ \E t \in Tasks, settings \in CoopSettings,
          fn \in {"azure_openai_complete_if_cache", "azure_openai_embedding"} :
          CoopCall(t, fn, settings)
    \/ \E t \in Tasks : CoopResponse(t, DispatchErrors)
    \/ \E t \in Tasks : CoopWake(t)

SpecEnv == InitEnv /\ [][NextEnv]_vars

\* Threads, each with its own event loop, call llm_model_func of one
\* dispatcher once. Line 267 reads self._current_model and then stores the
\* incremented value; line 268 reads it again to index self._models: three
\* accesses of the shared attribute, between which another thread may run.
ThreadRead(t) ==
    /\ tasks[t] = NoTask
    /\ tasks' = [tasks EXCEPT ![t] = [NoTask EXCEPT !.pc = "read",
                                                    !.fn = "llm_model_func",
                                                    !.cursor = current_model]]
    /\ UNCHANGED <<models, current_model, environ, order, seq>>

ThreadWrite(t) ==
    /\ tasks[t].pc = "read"
    /\ current_model' = NextCursor(tasks[t].cursor, Len(models))
    /\ tasks' = [tasks EXCEPT ![t].pc = "written"]
    /\ UNCHANGED <<models, environ, order, seq>>

\* line 268 and then lines 277-285, up to the generation function's await
ThreadIndex(t, kwargs) ==
    /\ tasks[t].pc = "written"
    /\ LET kw == StripReserved(kwargs)
           next_model == models[current_model + 1]
           merged == Merge(kw, next_model.kwargs)
       IN  /\ order' = Append(order, current_model)
           /\ IF \/ KeywordClash(DispatchNamed, kw, next_model.kwargs)
                 \/ BindFails(next_model.gen_func, merged)
              THEN /\ tasks' = [tasks EXCEPT ![t] = Ended(@, "TypeError")]
                   /\ environ' = environ
              ELSE RunBody(t, [tasks[t] EXCEPT !.api_key = Get(merged, "api_key"),
                                               !.base_url = Get(merged, "base_url"),
                                               !.api_version =
                                                   Get(merged, "api_version")])
    /\ UNCHANGED <<models, current_model, seq>>

InitThreads ==
    /\ models \in CoopModelLists
    /\ environ = EnvSet
    /\ InitCall
    /\ tasks = [t \in Threads |-> NoTask]
    /\ order = <<>>

NextThreads ==
    \/ \E t \in Threads : ThreadRead(t)
    \/ \E t \in Threads : ThreadWrite(t)
    \/ \E t \in Threads, kwargs \in CoopOptions : ThreadIndex(t, kwargs)
    \/ \E t \in Threads : CoopResponse(t, DispatchErrors)
    \/ \E t \in Threads : CoopWake(t)

SpecThreads == InitThreads /\ [][NextThreads]_vars

\* ----------------------------------------------------------------- claims
IsDispatch == frame.chain # <<>> /\ frame.chain[1] = "llm_model_func"
Finished == pc = "idle" /\ result.kind # "none"
AllTransient == \A i \in 1..Len(requests) : requests[i].outcome \in RetryableTypes
ClaimReserved == {"model", "keyword_extraction", "mode"}

\* C1: used sequentially, the k-th llm_model_func call after construction
\* invokes the generation function of the descriptor at index (k-1) mod M, so
\* the first call uses index 0.
C1_KthCallUsesIndexKMinusOne ==
    (IsDispatch /\ gen_calls # <<>>) =>
        gen_calls[1].idx = (dispatches - 1) % Len(models)

\* C2: when the selected descriptor's fixed arguments and the caller's
\* options (reserved keys stripped) set the same key, the call proceeds and
\* the generation function receives the descriptor's value for that key.
C2_DescriptorValueWins ==
    IsDispatch =>
        LET selected == models[current_model + 1].kwargs
            shared == (DOMAIN selected) \cap ((DOMAIN frame.caller_kwargs) \ ClaimReserved)
        IN  shared # {} =>
                /\ gen_calls # <<>>
                /\ \A k \in shared : gen_calls[1].kwargs[k] = selected[k]

\* C3 as stated: when the caller's options contain model, keyword_extraction
\* or mode, the argument set the generation function receives contains none
\* of those three keys, whatever descriptor is selected.
C3_NoReservedKeyInArgs ==
    (IsDispatch /\ gen_calls # <<>> /\ (DOMAIN frame.caller_kwargs) \cap ClaimReserved # {}) =>
        (DOMAIN gen_calls[1].kwargs) \cap ClaimReserved = {}

\* C3 as amended: when the caller's options contain model, keyword_extraction
\* or mode, the caller's values for those keys never reach the generation
\* function: its argument set holds such a key only when the selected
\* descriptor's fixed arguments set it, and then with the descriptor's value.
C3_CallerReservedKeysNeverReach ==
    (IsDispatch /\ gen_calls # <<>> /\ (DOMAIN frame.caller_kwargs) \cap ClaimReserved # {}) =>
        \A k \in (DOMAIN gen_calls[1].kwargs) \cap ClaimReserved :
            /\ k \in DOMAIN models[gen_calls[1].idx + 1].kwargs
            /\ gen_calls[1].kwargs[k] = models[gen_calls[1].idx + 1].kwargs[k]
            /\ gen_calls[1].kwargs[k] # CallerValue

C3_Witness ==
    /\ IsDispatch
    /\ gen_calls # <<>>
    /\ "model" \in DOMAIN frame.caller_kwargs
    /\ "mode" \in DOMAIN frame.caller_kwargs
    /\ "model" \in DOMAIN gen_calls[1].kwargs
    /\ gen_calls[1].kwargs["model"] = "gpt-4"

\* C4: one call of a retry-wrapped provider function makes at most 3 provider
\* requests: a further request is made only after a transient failure of the
\* previous one and while fewer than 3 were made, the first success is the
\* last request, and exactly 3 are made when every request fails transiently.
C4_AtMostThreeAttempts ==
    /\ Len(requests) <= 3
    /\ \A i \in 1..(Len(requests) - 1) : requests[i].outcome \in RetryableTypes
    /\ pc \in {"attempt", "sleep"} => (AllTransient /\ Len(requests) < 3)
    /\ (Finished /\ requests # <<>> /\ AllTransient) => Len(requests) = 3

C4_Witness ==
    /\ Finished
    /\ Len(requests) = 3
    /\ AllTransient
    /\ WrappedFn(frame) = "azure_openai_embedding"

\* C5: when a request of azure_openai_complete_if_cache fails with an error
\* outside the three transient kinds, no further request is made (one attempt
\* in all when the first fails so) and that same error reaches the caller.
C5_NonTransientNotRetried ==
    (frame.chain # <<>> /\ WrappedFn(frame) = "azure_openai_complete_if_cache") =>
        \A i \in 1..Len(requests) :
            (requests[i].outcome \notin RetryableTypes \cup {"ok"}) =>
                /\ i = Len(requests)
                /\ pc = "idle"
                /\ result = Reraise(requests[i].outcome)

C5_Witness ==
    /\ frame.chain = <<"azure_openai_complete_if_cache">>
    /\ Len(requests) = 1
    /\ requests[1].outcome = "AuthenticationError"
    /\ result.exc = "AuthenticationError"

\* C6: when all 3 attempts of a retry-wrapped call fail with transient
\* errors, the call ends with an error delivered to the caller, and that
\* error carries the last attempt's transient error as its cause.
C6_ExhaustedRaisesWithCause ==
    (Len(requests) = 3 /\ AllTransient) =>
        /\ pc = "idle"
        /\ result.kind = "error"
        /\ result.cause = requests[3].outcome

C6_Witness ==
    /\ Len(requests) = 3
    /\ AllTransient
    /\ requests[1].outcome # requests[3].outcome
    /\ requests[2].outcome # requests[3].outcome
    /\ result.kind = "error"
    /\ result.cause = requests[3].outcome

\* C7: every llm_model_func call advances the cursor by exactly one position
\* modulo the number of descriptors, whether the generation function returns
\* or raises; no other step (a retry attempt, a failure) moves the cursor.
C7_CursorAdvancesOncePerDispatch ==
    [][ IF dispatches' = dispatches + 1
        THEN current_model' = (current_model + 1) % Len(models)
        ELSE current_model' = current_model ]_vars

C7_Witness ==
    /\ IsDispatch
    /\ Finished
    /\ result.exc = "RetryError"
    /\ Len(requests) = 3
    /\ Len(models) = 3
    /\ dispatches = 3
    /\ current_model = 0

\* C8: one llm_model_func call invokes the generation function of exactly
\* one descriptor, exactly once, and a failure of it reaches the caller
\* unchanged.
C8_ExactlyOneGenFuncInvocation ==
    (IsDispatch /\ Finished) => Len(gen_calls) = 1

\* C9: azure_openai_complete returns the keyword-extraction post-processor's
\* output when the caller passes keyword_extraction=True, and the provider's
\* completion text unchanged when the flag is False or absent.
C9_KeywordExtractionApplied ==
    (frame.chain # <<>> /\ frame.chain[1] = "azure_openai_complete"
     /\ Finished /\ result.kind = "value") =>
        result.val = IF frame.kx_arg = "True"
                     THEN locate_json_string_body_from_string(
                              requests[Len(requests)].response)
                     ELSE requests[Len(requests)].response

\* C10: a transient error raised while the streaming call opens the provider
\* stream, before any fragment, is retried like the non-streaming call: the
\* error reaches the consumer only after 3 connection attempts.
C10_StreamOpenRetried ==
    (frame.chain # <<>>
     /\ WrappedFn(frame) = "azure_openai_complete_if_cache_stream"
     /\ Finished /\ result.kind = "error" /\ ~stream.open
     /\ requests # <<>> /\ requests[Len(requests)].outcome \in RetryableTypes) =>
        Len(requests) = 3

\* C11: in the streaming call, once a fragment has been delivered, a provider
\* error ends the sequence with that error: the call has opened one provider
\* stream and no more, and it has delivered no more fragments than deltas it
\* has read from that stream (none is delivered twice).
Consumed == SubSeq(stream.deltas, 1, Len(stream.deltas) - Len(stream.events))

C11_MidStreamErrorEndsSequence ==
    yielded # <<>> =>
        /\ Len(requests) = 1
        /\ Len(yielded) <= Len(Consumed)
        /\ (Finished /\ stream.tail # "end") => result = Reraise(stream.tail)

C11_Witness ==
    /\ Finished
    /\ yielded # <<>>
    /\ stream.tail \in RetryableTypes
    /\ result = Reraise(stream.tail)

\* C12: for every finite sequence of provider deltas, the fragments yielded so
\* far are exactly the textual contents of the deltas read so far that carry
\* text, in the provider's order; deltas without text yield nothing.
RECURSIVE TextContents(_)
TextContents(ds) ==
    IF ds = <<>> THEN <<>>
    ELSE (IF "content" \in DOMAIN Head(ds) /\ Head(ds)["content"] # None
          THEN <<Head(ds)["content"]>> ELSE <<>>) \o TextContents(Tail(ds))

C12_YieldsExactlyTheContents == yielded = TextContents(Consumed)

\* C13: for each of the three settings and any sequence of completion,
\* streaming and embedding calls: the run of a call's body that sends a request
\* leaves in the environment the call's value for a setting it supplies and
\* the previous value for a setting it omits, and builds its client from the
\* environment as it then stands; no other step changes the environment, so
\* the values are still there when the call has ended, by return or by error.
Supplied(v) == v # None /\ v # ""

C13_SettingsPersistInEnvironment ==
    [][ IF Len(requests') = Len(requests) + 1
        THEN /\ environ'.AZURE_OPENAI_API_KEY =
                    IF Supplied(frame.api_key) THEN frame.api_key
                    ELSE environ.AZURE_OPENAI_API_KEY
             /\ environ'.AZURE_OPENAI_ENDPOINT =
                    IF Supplied(frame.base_url) THEN frame.base_url
                    ELSE environ.AZURE_OPENAI_ENDPOINT
             /\ environ'.AZURE_OPENAI_API_VERSION =
                    IF Supplied(frame.api_version) THEN frame.api_version
                    ELSE environ.AZURE_OPENAI_API_VERSION
             /\ LET client == requests'[Len(requests')].request.client
                IN  /\ client.api_key = environ'.AZURE_OPENAI_API_KEY
                    /\ client.azure_endpoint = environ'.AZURE_OPENAI_ENDPOINT
                    /\ client.api_version = environ'.AZURE_OPENAI_API_VERSION
        ELSE environ' = environ ]_vars

\* a call that supplies only the key has ended by error: its key is in the
\* environment, and its client took the endpoint an earlier call supplied
C13_Witness ==
    /\ Finished
    /\ result.kind = "error"
    /\ frame.api_key = "K2" /\ frame.base_url = None /\ frame.api_version = None
    /\ requests # <<>>
    /\ environ.AZURE_OPENAI_API_KEY = "K2"
    /\ requests[1].request.client.azure_endpoint = "U1"
    /\ environ.AZURE_OPENAI_ENDPOINT = "U1"

\* C14: in a retry-wrapped call every wait between two consecutive attempts
\* lies within [4, 10] time units, and the wait before attempt n+1 is never
\* shorter than the wait before attempt n.
C14_WaitsBoundedAndNonDecreasing ==
    /\ \A i \in 1..Len(waits) : 4 <= waits[i] /\ waits[i] <= 10
    /\ \A i \in 1..(Len(waits) - 1) : waits[i] <= waits[i + 1]

\* a call has failed transiently three times and slept twice in between
C14_Witness ==
    /\ Finished
    /\ Len(requests) = 3
    /\ Len(waits) = 2
    /\ result.exc = "RetryError"

\* C15 as stated, "given" read as "not None" for both parameters: the message
\* list sent by azure_openai_complete_if_cache is one system turn carrying
\* system_prompt iff a system prompt is given, then the turns of
\* history_messages in order, then one user turn carrying prompt iff prompt is
\* given, and nothing else.
IsCompletion == frame.chain # <<>> /\ WrappedFn(frame) = "azure_openai_complete_if_cache"

MessagesAre(m, sys, usr) ==
    LET off == IF sys THEN 1 ELSE 0
    IN  /\ Len(m) = off + Len(frame.history_messages) + (IF usr THEN 1 ELSE 0)
        /\ sys => m[1] = [role |-> "system", content |-> frame.system_prompt]
        /\ \A j \in 1..Len(frame.history_messages) :
               m[off + j] = frame.history_messages[j]
        /\ usr => m[Len(m)] = [role |-> "user", content |-> frame.prompt]

C15_MessagesAsGiven ==
    IsCompletion =>
        \A i \in 1..Len(requests) :
            MessagesAre(requests[i].request.messages,
                        frame.system_prompt # None, frame.prompt # None)

\* C15 amended: the system turn is there iff system_prompt is a non-empty
\* string (None and "" give none); the user turn is there iff prompt is not
\* None (an empty prompt still gives a user turn).
C15_MessagesSystemIfNonEmpty ==
    IsCompletion =>
        \A i \in 1..Len(requests) :
            MessagesAre(requests[i].request.messages,
                        Supplied(frame.system_prompt), frame.prompt # None)

\* empty system prompt and empty prompt, with one turn of history: the request
\* carries the history turn and an empty user turn, and no system turn
C15_Witness ==
    /\ IsCompletion
    /\ frame.system_prompt = "" /\ frame.prompt = ""
    /\ requests # <<>>
    /\ requests[1].request.messages =
          <<[role |-> "assistant", content |-> "h"], [role |-> "user", content |-> ""]>>

\* C16: under cooperative scheduling, overlapping llm_model_func calls select
\* descriptors in strict cyclic order of their start: each start selects the
\* descriptor after the one the previous start selected (none skipped, none
\* repeated), and any M consecutive starts select M distinct descriptors.
C16_CooperativeStartsCycle ==
    LET M == Len(models)
    IN  /\ \A i \in 1..(Len(order) - 1) : order[i + 1] = (order[i] + 1) % M
        /\ \A i \in 1..(Len(order) - M + 1) :
               Cardinality({order[j] : j \in i..(i + M - 1)}) = M

\* three descriptors, four starts, and two calls in flight at once
C16_Witness ==
    /\ Len(models) = 3
    /\ Len(order) = 4
    /\ \E t, u \in Tasks :
          /\ t # u
          /\ tasks[t].pc \in {"awaiting", "sleep"}
          /\ tasks[u].pc \in {"awaiting", "sleep"}
          /\ tasks[t].client # tasks[u].client

\* C17: with threads calling llm_model_func on one dispatcher, where the
\* cursor read, the cursor write and the re-read that indexes the list are
\* separate steps, updates of the cursor can be lost: the cursor has advanced
\* by no more than the number of distinct values the threads that wrote it
\* had read, and every descriptor selected lies within that advance. So two
\* threads that read the same value leave the cursor advanced by one position
\* only and select the same descriptor; C17_Witness is that interleaving.
Written ==
    {t \in DOMAIN tasks : tasks[t].pc \notin {"idle", "read"} \/ tasks[t].outcome # None}
ValuesRead == {tasks[t].cursor : t \in Written}
Advance == {k % Len(models) : k \in 1..Cardinality(ValuesRead)}

C17_LostCursorUpdates ==
    /\ Written = {} => current_model = 0
    /\ Written # {} => current_model \in Advance
    /\ \A i \in 1..Len(order) : order[i] \in Advance

\* two threads have dispatched on a dispatcher of three descriptors: both
\* selected the same descriptor and the cursor stands one position on
C17_Witness ==
    /\ Len(models) = 3
    /\ Len(order) = 2
    /\ order[1] = order[2]
    /\ order[1] = 1
    /\ current_model = 1
    /\ \E t, u \in DOMAIN tasks :
          t # u /\ tasks[t].cursor = 0 /\ tasks[u].cursor = 0 /\ {t, u} \subseteq Written

\* C18: under cooperative scheduling and any interleaving of concurrent
\* completion and embedding calls and their retry attempts, every body run of
\* a call builds its client with the call's own value for each setting the
\* call supplies (so with exactly its own three values when it supplies all
\* three); only for a setting it omits can the value come from elsewhere.
C18_ClientUsesOwnSettings ==
    [][ \A t \in DOMAIN tasks :
          (t \in DOMAIN tasks' /\ tasks'[t].attempt # tasks[t].attempt) =>
              LET task == tasks'[t]
              IN  /\ Supplied(task.api_key) => task.client.api_key = task.api_key
                  /\ Supplied(task.base_url) => task.client.azure_endpoint = task.base_url
                  /\ Supplied(task.api_version) =>
                         task.client.api_version = task.api_version ]_vars

\* a call with all three settings is in its second attempt with a client of
\* its own three values, while a concurrent call that wrote another key to
\* the environment is in flight
C18_Witness ==
    \E t, u \in DOMAIN tasks :
        /\ t # u
        /\ tasks[t].pc = "awaiting" /\ tasks[t].attempt = 2
        /\ tasks[t].api_key = "K1" /\ tasks[t].base_url = "U1"
        /\ tasks[t].api_version = "V1"
        /\ tasks[t].client = [azure_endpoint |-> "U1", api_key |-> "K1",
                              api_version |-> "V1"]
        /\ tasks[u].pc = "awaiting" /\ tasks[u].attempt = 1
        /\ tasks[u].api_key = "K2" /\ tasks[u].client.api_key = "K2"
        /\ environ.AZURE_OPENAI_API_KEY = "K1"

====
